---- MODULE Spec2Model ----
(***************************************************************************)
(* Envelope encryption of mirfa-test-app: packages/crypto (encryptPayload, *)
(* decryptPayload, validateRecord, getMasterKey) and the Fastify routes of *)
(* apps/api that store and decrypt the records.                            *)
(*                                                                         *)
(* JavaScript strings are sequences of one-character strings, Buffers are  *)
(* sequences of bytes (0..255), error messages are sequences of words.     *)
(***************************************************************************)
EXTENDS Integers, Sequences, FiniteSets, TLC

(***************************************************************************)
(* Bounds of the model.                                                    *)
(***************************************************************************)
\* states the random source can be in when encryptPayload draws from it
NumSeeds == 2

(***************************************************************************)
(* Program constants.                                                      *)
(***************************************************************************)
KeyBytes == 32
NonceBytes == 12
TagBytes == 16
SupportedVersion == 1
SupportedAlg == "AES-256-GCM"

Byte == 0..255

(***************************************************************************)
(* Sequence helpers.                                                       *)
(***************************************************************************)
RECURSIVE Flatten(_)
Flatten(ss) == IF ss = <<>> THEN <<>> ELSE Head(ss) \o Flatten(Tail(ss))

Drop(s, n) == IF n >= Len(s) THEN <<>> ELSE SubSeq(s, n + 1, Len(s))

\* String.prototype.includes on word sequences: pat occurs contiguously in msg
Includes(msg, pat) ==
  \E i \in 0..(Len(msg) - Len(pat)) : SubSeq(msg, i + 1, i + Len(pat)) = pat

(***************************************************************************)
(* Hex: Buffer.prototype.toString('hex') and Buffer.from(s, 'hex').        *)
(***************************************************************************)
LowerHex == <<"0","1","2","3","4","5","6","7","8","9","a","b","c","d","e","f">>
UpperHex == <<"0","1","2","3","4","5","6","7","8","9","A","B","C","D","E","F">>

\* the character class [0-9a-fA-F]
HexChars == {LowerHex[i] : i \in 1..16} \cup {UpperHex[i] : i \in 1..16}
IsHexChar(c) == c \in HexChars

\* the value of a hex digit, either case
HexValue ==
  [c \in HexChars |-> (CHOOSE i \in 1..16 : LowerHex[i] = c \/ UpperHex[i] = c) - 1]
hexVal(c) == HexValue[c]

\* mutant: bytes joined by toString(16), a byte below 16 giving one digit
toHexUnpadded(buf) ==
  Flatten([k \in 1..Len(buf) |->
             IF buf[k] < 16 THEN <<LowerHex[buf[k] + 1]>>
             ELSE <<LowerHex[(buf[k] \div 16) + 1], LowerHex[(buf[k] % 16) + 1]>>])

\* buf.toString('hex'): two lowercase digits per byte
toHex(buf) ==
  [k \in 1..(2 * Len(buf)) |->
     IF k % 2 = 1 THEN LowerHex[(buf[(k + 1) \div 2] \div 16) + 1]
                  ELSE LowerHex[(buf[k \div 2] % 16) + 1]]

\* number of leading well-formed digit pairs of s, k of them already seen
RECURSIVE hexPairsFrom(_, _)
hexPairsFrom(s, k) ==
  IF Len(s) >= 2 * k + 2 /\ IsHexChar(s[2 * k + 1]) /\ IsHexChar(s[2 * k + 2])
  THEN hexPairsFrom(s, k + 1)
  ELSE k

hexPairs(s) == hexPairsFrom(s, 0)

\* Buffer.from(s, 'hex'): decodes digit pairs, stops at the first pair that
\* is not hex, and drops a trailing single digit
fromHex(s) ==
  [k \in 1..hexPairs(s) |-> 16 * hexVal(s[2 * k - 1]) + hexVal(s[2 * k])]

\* /^[0-9a-fA-F]*$/.test(s)
MatchesHexStar(s) == \A i \in 1..Len(s) : IsHexChar(s[i])

\* /^[0-9a-fA-F]+$/.test(s)
MatchesHexPlus(s) == Len(s) >= 1 /\ MatchesHexStar(s)

(***************************************************************************)
(* UTF-8: Buffer.from(str, 'utf8') and buf.toString('utf8').  The model's  *)
(* alphabet is the characters JSON.stringify needs for the payloads below, *)
(* one two-byte character (U+00E9) and two characters the decoder alone    *)
(* produces: U+FFFD for malformed input and "?" for any other character.   *)
(***************************************************************************)
Quote == "\""
Alphabet ==
  {"0","1","2","3","4","5","6","7","8","9","-",Quote,",",":","[","]","{","}",
   "a","e","f","l","m","n","o","r","s","t","u","U+00E9"}

CharCode(c) ==
  CASE c = "0" -> 48 [] c = "1" -> 49 [] c = "2" -> 50 [] c = "3" -> 51
    [] c = "4" -> 52 [] c = "5" -> 53 [] c = "6" -> 54 [] c = "7" -> 55
    [] c = "8" -> 56 [] c = "9" -> 57 [] c = "-" -> 45 [] c = Quote -> 34
    [] c = "," -> 44 [] c = ":" -> 58 [] c = "[" -> 91 [] c = "]" -> 93
    [] c = "{" -> 123 [] c = "}" -> 125 [] c = "a" -> 97 [] c = "e" -> 101
    [] c = "f" -> 102 [] c = "l" -> 108 [] c = "m" -> 109 [] c = "n" -> 110
    [] c = "o" -> 111 [] c = "r" -> 114 [] c = "s" -> 115 [] c = "t" -> 116
    [] c = "u" -> 117 [] c = "U+00E9" -> 233

CodeChar(cp) ==
  IF \E c \in Alphabet : CharCode(c) = cp
  THEN CHOOSE c \in Alphabet : CharCode(c) = cp
  ELSE "?"

utf8EncodeChar(c) ==
  LET cp == CharCode(c)
  IN  IF cp < 128 THEN <<cp>> ELSE <<192 + (cp \div 64), 128 + (cp % 64)>>

\* mutant: the string is encoded as 'latin1', one byte per character
utf8EncodeLatin1(str) == [i \in 1..Len(str) |-> CharCode(str[i]) % 256]

\* Buffer.from(str, 'utf8')
utf8Encode(str) == Flatten([i \in 1..Len(str) |-> utf8EncodeChar(str[i])])

\* buf.toString('utf8'): never throws, malformed sequences become U+FFFD
RECURSIVE utf8Decode(_)
utf8Decode(buf) ==
  IF buf = <<>> THEN <<>>
  ELSE IF buf[1] < 128 THEN <<CodeChar(buf[1])>> \o utf8Decode(Drop(buf, 1))
  ELSE IF /\ buf[1] >= 194 /\ buf[1] < 224
          /\ Len(buf) >= 2 /\ buf[2] >= 128 /\ buf[2] < 192
       THEN <<CodeChar((buf[1] - 192) * 64 + (buf[2] - 128))>>
              \o utf8Decode(Drop(buf, 2))
  ELSE <<"U+FFFD">> \o utf8Decode(Drop(buf, 1))

(***************************************************************************)
(* JSON values, JSON.stringify and JSON.parse.                             *)
(***************************************************************************)
\* every value has the same fields, so that any two values compare:
\* t the type, b a boolean, n a number, s a string, and for an array its
\* elements a, for an object its keys k and their values a, in insertion order
JValue(t, b, n, s, k, a) == [t |-> t, b |-> b, n |-> n, s |-> s, k |-> k, a |-> a]
JNull == JValue("null", FALSE, 0, <<>>, <<>>, <<>>)
JBool(b) == JValue("bool", b, 0, <<>>, <<>>, <<>>)
JNum(n) == JValue("num", FALSE, n, <<>>, <<>>, <<>>)
JStr(s) == JValue("str", FALSE, 0, s, <<>>, <<>>)
JArr(vs) == JValue("arr", FALSE, 0, <<>>, <<>>, vs)
JObj(keys, vs) == JValue("obj", FALSE, 0, <<>>, keys, vs)

RECURSIVE digitsOf(_)
digitsOf(n) ==
  IF n < 10 THEN <<LowerHex[n + 1]>>
  ELSE digitsOf(n \div 10) \o <<LowerHex[(n % 10) + 1]>>

RECURSIVE joinWith(_, _)
joinWith(parts, sep) ==
  IF parts = <<>> THEN <<>>
  ELSE IF Len(parts) = 1 THEN parts[1]
  ELSE parts[1] \o sep \o joinWith(Tail(parts), sep)

\* JSON.stringify(value) for a value of the JSON data model
RECURSIVE JSONstringify(_)
JSONstringify(x) ==
  CASE x.t = "null" -> <<"n","u","l","l">>
    [] x.t = "bool" -> IF x.b THEN <<"t","r","u","e">> ELSE <<"f","a","l","s","e">>
    [] x.t = "num"  -> IF x.n < 0 THEN <<"-">> \o digitsOf(0 - x.n) ELSE digitsOf(x.n)
    [] x.t = "str"  -> <<Quote>> \o x.s \o <<Quote>>
    [] x.t = "arr"  ->
         <<"[">> \o joinWith([i \in 1..Len(x.a) |-> JSONstringify(x.a[i])], <<",">>)
                 \o <<"]">>
    [] x.t = "obj"  ->
         <<"{">> \o joinWith([i \in 1..Len(x.a) |->
                                <<Quote>> \o x.k[i] \o <<Quote, ":">>
                                  \o JSONstringify(x.a[i])], <<",">>)
                 \o <<"}">>

IsDigit(c) == \E i \in 1..10 : LowerHex[i] = c

ParseFail == [ok |-> FALSE, v |-> JNull, rest |-> <<>>]
ParseOk(val, rest) == [ok |-> TRUE, v |-> val, rest |-> rest]

HasPrefix(s, p) == Len(s) >= Len(p) /\ SubSeq(s, 1, Len(p)) = p

\* the digits at the head of s, as a number, with what follows them
RECURSIVE parseDigits(_, _)
parseDigits(s, acc) ==
  IF s # <<>> /\ IsDigit(s[1])
  THEN parseDigits(Tail(s), 10 * acc + hexVal(s[1]))
  ELSE [n |-> acc, rest |-> s]

\* JSON number: -? (0 | [1-9][0-9]*), integers only
parseNumber(s) ==
  LET neg  == s # <<>> /\ s[1] = "-"
      body == IF neg THEN Tail(s) ELSE s
  IN  IF body = <<>> \/ ~IsDigit(body[1]) THEN ParseFail
      ELSE IF body[1] = "0" THEN ParseOk(JNum(0), Tail(body))
      ELSE LET d == parseDigits(body, 0)
           IN  ParseOk(JNum(IF neg THEN 0 - d.n ELSE d.n), d.rest)

\* JSON string without escapes: the characters up to the closing quote
RECURSIVE parseChars(_, _)
parseChars(s, acc) ==
  IF s = <<>> THEN ParseFail
  ELSE IF s[1] = Quote THEN ParseOk(JStr(acc), Tail(s))
  ELSE parseChars(Tail(s), Append(acc, s[1]))

RECURSIVE parseValue(_)
RECURSIVE parseElements(_, _)
RECURSIVE parseMembers(_, _)

\* after "[" and at least one element may follow
parseElements(s, acc) ==
  LET e == parseValue(s)
  IN  IF ~e.ok \/ e.rest = <<>> THEN ParseFail
      ELSE IF e.rest[1] = "]" THEN ParseOk(JArr(Append(acc, e.v)), Tail(e.rest))
      ELSE IF e.rest[1] = "," THEN parseElements(Tail(e.rest), Append(acc, e.v))
      ELSE ParseFail

\* acc is the object read so far
parseMembers(s, acc) ==
  LET k == IF s # <<>> /\ s[1] = Quote THEN parseChars(Tail(s), <<>>) ELSE ParseFail
  IN  IF ~k.ok \/ k.rest = <<>> \/ k.rest[1] # ":" THEN ParseFail
      ELSE LET e == parseValue(Tail(k.rest))
               m == JObj(Append(acc.k, k.v.s), Append(acc.a, e.v))
           IN  IF ~e.ok \/ e.rest = <<>> THEN ParseFail
               ELSE IF e.rest[1] = "}" THEN ParseOk(m, Tail(e.rest))
               ELSE IF e.rest[1] = "," THEN parseMembers(Tail(e.rest), m)
               ELSE ParseFail

parseValue(s) ==
  IF s = <<>> THEN ParseFail
  ELSE IF HasPrefix(s, <<"n","u","l","l">>) THEN ParseOk(JNull, Drop(s, 4))
  ELSE IF HasPrefix(s, <<"t","r","u","e">>) THEN ParseOk(JBool(TRUE), Drop(s, 4))
  ELSE IF HasPrefix(s, <<"f","a","l","s","e">>) THEN ParseOk(JBool(FALSE), Drop(s, 5))
  ELSE IF s[1] = Quote THEN parseChars(Tail(s), <<>>)
  ELSE IF s[1] = "[" THEN
         IF Len(s) >= 2 /\ s[2] = "]" THEN ParseOk(JArr(<<>>), Drop(s, 2))
         ELSE parseElements(Tail(s), <<>>)
  ELSE IF s[1] = "{" THEN
         IF Len(s) >= 2 /\ s[2] = "}" THEN ParseOk(JObj(<<>>, <<>>), Drop(s, 2))
         ELSE parseMembers(Tail(s), JObj(<<>>, <<>>))
  ELSE parseNumber(s)

\* JSON.parse(text): [ok, v]; ok = FALSE stands for the SyntaxError it throws
JSONparse(text) ==
  LET r == parseValue(text)
  IN  IF r.ok /\ r.rest = <<>> THEN [ok |-> TRUE, v |-> r.v]
      ELSE [ok |-> FALSE, v |-> JNull]


(***************************************************************************)
(* node:crypto's AES-256-GCM, abstracted: the key stream is a function of  *)
(* key, nonce and position, XORed onto the text (ciphertext as long as the *)
(* plaintext); the tag is a 16-byte keyed checksum of nonce and ciphertext *)
(* in which every ciphertext byte has an odd weight, so that within the    *)
(* model no single-bit change and no change of key goes undetected, as     *)
(* GCM's 128-bit tag makes overwhelmingly likely.                          *)
(***************************************************************************)
Bit(x, k) == (x \div (2 ^ k)) % 2

Xor(a, b) ==
  LET d(k) == IF Bit(a, k) # Bit(b, k) THEN 2 ^ k ELSE 0
  IN  d(0) + d(1) + d(2) + d(3) + d(4) + d(5) + d(6) + d(7)

At(s, i) == s[((i - 1) % Len(s)) + 1]

KeyStream(key, nonce, i) == (7 * At(key, i) + 13 * At(nonce, i) + 31 * i) % 256

\* cipher.update(text) / decipher.update(text): the same XOR both ways
GcmCrypt(key, nonce, text) ==
  [i \in 1..Len(text) |-> Xor(text[i], KeyStream(key, nonce, i))]

RECURSIVE laneSum(_, _)
laneSum(ct, i) == IF i > Len(ct) THEN 0 ELSE ct[i] + laneSum(ct, i + TagBytes)

\* cipher.getAuthTag()
GcmTag(key, nonce, ct) ==
  [j \in 1..TagBytes |->
     (At(key, j) + 3 * At(key, j + TagBytes) + 5 * At(nonce, j)
        + Len(ct) + laneSum(ct, j)) % 256]

\* crypto.createCipheriv / createDecipheriv accept a 32-byte key and a
\* non-empty IV for 'aes-256-gcm'
CipherInitOk(key, nonce) == Len(key) = KeyBytes /\ Len(nonce) >= 1

\* mutant: final() does not verify the tag
FinalOkUnverified(key, nonce, ct, tag) == TRUE

\* decipher.final(): succeeds only when the tag set by setAuthTag verifies
FinalOk(key, nonce, ct, tag) == GcmTag(key, nonce, ct) = tag

\* what node:crypto and JSON.parse throw
AuthFailedMsg == <<"Unsupported", "state", "or", "unable", "to", "authenticate", "data">>
InvalidKeyLengthMsg == <<"Invalid", "key", "length">>
InvalidIvMsg == <<"Invalid", "initialization", "vector">>
SyntaxErrorMsg == <<"Unexpected", "token", "in", "JSON">>

(***************************************************************************)
(* The random source, the clock and the environment.                       *)
(***************************************************************************)
\* crypto.randomBytes(32), outcome d
DekOf(d) == [i \in 1..KeyBytes |-> (29 * d + 5 * i + 1) % 256]
\* crypto.randomBytes(12), outcome n
NonceOf(n) == [i \in 1..NonceBytes |-> (41 * n + 11 * i) % 256]
\* a well-formed master key
MasterKeyOf(k) == [i \in 1..KeyBytes |-> (17 * k + 3 * i) % 256]

Instants == {"2024-01-01T00:00:00.000Z"}

\* process.env.MASTER_KEY: undefined, or a string
EnvUndefined == [defined |-> FALSE, value |-> <<>>]
EnvString(str) == [defined |-> TRUE, value |-> str]

K1 == MasterKeyOf(1)
K2 == MasterKeyOf(2)
EnvK1 == EnvString(toHex(K1))
EnvK2 == EnvString(toHex(K2))
EnvEmpty == EnvString(<<>>)
\* 64 characters, the last one not a hex digit
EnvNonHex == EnvString(SubSeq(toHex(K1), 1, 2 * KeyBytes - 1) \o <<"g">>)
\* 31 bytes
EnvShort == EnvString(SubSeq(toHex(K1), 1, 2 * KeyBytes - 2))
\* 65 hex digits
EnvOdd == EnvString(toHex(K1) \o <<"0">>)

Envs == {EnvUndefined, EnvEmpty, EnvNonHex, EnvShort, EnvOdd, EnvK1, EnvK2}

(***************************************************************************)
(* getMasterKey (index.ts:199-220)                                         *)
(***************************************************************************)
Thrown(msg) == [ok |-> FALSE, val |-> <<>>, err |-> msg]
Returned(val) == [ok |-> TRUE, val |-> val, err |-> <<>>]

MissingKeyMsg == <<"MASTER_KEY", "environment", "variable", "is", "not", "defined">>
KeyFormatMsg == <<"MASTER_KEY", "must", "be", "a", "valid", "hex", "string">>
KeyLengthMsg(n) ==
  <<"MASTER_KEY", "must", "be", "exactly", "32", "bytes", "(64", "hex",
    "characters),", "got", ToString(n), "bytes">>

getMasterKey(e) ==
  IF ~e.defined \/ e.value = <<>> THEN Thrown(MissingKeyMsg)
  ELSE IF ~MatchesHexPlus(e.value) THEN Thrown(KeyFormatMsg)
  ELSE LET masterKey == fromHex(e.value)
       IN  IF Len(masterKey) # KeyBytes THEN Thrown(KeyLengthMsg(Len(masterKey)))
           ELSE Returned(masterKey)

(***************************************************************************)
(* encryptPayload (index.ts:20-65)                                         *)
(***************************************************************************)
NoRecord ==
  [id |-> 0, partyId |-> <<>>, createdAt |-> "", payload_nonce |-> <<>>,
   payload_ct |-> <<>>, payload_tag |-> <<>>, dek_wrap_nonce |-> <<>>,
   dek_wrapped |-> <<>>, dek_wrap_tag |-> <<>>, alg |-> "", mk_version |-> 0]

\* mutant: the payload is encrypted under a nonce fixed in the code
encryptPayloadStaticNonce(partyId, payload, e, d, n1, n2, uuid, now) ==
  LET mk == getMasterKey(e)
      dek == DekOf(d)
      payloadBuffer == utf8Encode(JSONstringify(payload))
      payloadNonce == NonceOf(0)
      payloadCt == GcmCrypt(dek, payloadNonce, payloadBuffer)
      payloadTag == GcmTag(dek, payloadNonce, payloadCt)
      dekWrapNonce == NonceOf(n2)
      dekWrapped == GcmCrypt(mk.val, dekWrapNonce, dek)
      dekWrapTag == GcmTag(mk.val, dekWrapNonce, dekWrapped)
  IN  IF ~mk.ok THEN [ok |-> FALSE, val |-> NoRecord, err |-> mk.err]
      ELSE [ok |-> TRUE, err |-> <<>>,
            val |-> [id |-> uuid, partyId |-> partyId, createdAt |-> now,
                     payload_nonce |-> toHex(payloadNonce),
                     payload_ct |-> toHex(payloadCt),
                     payload_tag |-> toHex(payloadTag),
                     dek_wrap_nonce |-> toHex(dekWrapNonce),
                     dek_wrapped |-> toHex(dekWrapped),
                     dek_wrap_tag |-> toHex(dekWrapTag),
                     alg |-> SupportedAlg,
                     mk_version |-> SupportedVersion]]

\* d, n1, n2 and uuid are what the random source returns, now the clock
encryptPayload(partyId, payload, e, d, n1, n2, uuid, now) ==
  LET mk == getMasterKey(e)
      dek == DekOf(d)
      payloadBuffer == utf8Encode(JSONstringify(payload))
      payloadNonce == NonceOf(n1)
      payloadCt == GcmCrypt(dek, payloadNonce, payloadBuffer)
      payloadTag == GcmTag(dek, payloadNonce, payloadCt)
      dekWrapNonce == NonceOf(n2)
      dekWrapped == GcmCrypt(mk.val, dekWrapNonce, dek)
      dekWrapTag == GcmTag(mk.val, dekWrapNonce, dekWrapped)
  IN  IF ~mk.ok THEN [ok |-> FALSE, val |-> NoRecord, err |-> mk.err]
      ELSE [ok |-> TRUE, err |-> <<>>,
            val |-> [id |-> uuid, partyId |-> partyId, createdAt |-> now,
                     payload_nonce |-> toHex(payloadNonce),
                     payload_ct |-> toHex(payloadCt),
                     payload_tag |-> toHex(payloadTag),
                     dek_wrap_nonce |-> toHex(dekWrapNonce),
                     dek_wrapped |-> toHex(dekWrapped),
                     dek_wrap_tag |-> toHex(dekWrapTag),
                     alg |-> SupportedAlg,
                     mk_version |-> SupportedVersion]]

(***************************************************************************)
(* validateRecord (index.ts:149-193)                                       *)
(***************************************************************************)
HexField(name, value, hasExpected, expectedBytes) ==
  [name |-> name, value |-> value, hasExpected |-> hasExpected,
   expectedBytes |-> expectedBytes]

hexFields(record) ==
  << HexField("payload_nonce", record.payload_nonce, TRUE, NonceBytes),
     HexField("payload_ct", record.payload_ct, FALSE, 0),
     HexField("payload_tag", record.payload_tag, TRUE, TagBytes),
     HexField("dek_wrap_nonce", record.dek_wrap_nonce, TRUE, NonceBytes),
     HexField("dek_wrapped", record.dek_wrapped, FALSE, 0),
     HexField("dek_wrap_tag", record.dek_wrap_tag, TRUE, TagBytes) >>

UnsupportedAlgMsg(alg) == <<"Unsupported", "algorithm:", alg>>
UnsupportedVersionMsg(v) == <<"Unsupported", "master", "key", "version:", ToString(v)>>
InvalidHexMsg(name) == <<"Invalid", "hex", "in", "field", name>>
InvalidHexLengthMsg(name) ==
  <<"Invalid", "hex", "length", "in", "field", name, "must", "be", "even">>
InvalidLengthMsg(name, expected, actual) ==
  <<"Invalid", name, "length:", "expected", ToString(expected), "bytes,", "got",
    ToString(actual), "bytes">>

\* the body of the loop for one field: the message thrown, or <<>> for none
checkField(f) ==
  IF ~MatchesHexStar(f.value) THEN InvalidHexMsg(f.name)
  ELSE IF Len(f.value) % 2 # 0 THEN InvalidHexLengthMsg(f.name)
  ELSE IF f.hasExpected /\ Len(f.value) \div 2 # f.expectedBytes
       THEN InvalidLengthMsg(f.name, f.expectedBytes, Len(f.value) \div 2)
  ELSE <<>>

\* the least member of a set of indices; bound + 1 when it is empty
LeastIn(S, bound) ==
  IF S = {} THEN bound + 1 ELSE CHOOSE i \in S : \A j \in S : i <= j

\* mutant: three loops, one per check, each over all the fields
checkFieldsByStep(fields) ==
  LET n == Len(fields)
      h == LeastIn({i \in 1..n : ~MatchesHexStar(fields[i].value)}, n)
      o == LeastIn({i \in 1..n : Len(fields[i].value) % 2 # 0}, n)
      w == LeastIn({i \in 1..n : /\ fields[i].hasExpected
                                 /\ Len(fields[i].value) \div 2 # fields[i].expectedBytes}, n)
  IN  IF h <= n THEN InvalidHexMsg(fields[h].name)
      ELSE IF o <= n THEN InvalidHexLengthMsg(fields[o].name)
      ELSE IF w <= n
           THEN InvalidLengthMsg(fields[w].name, fields[w].expectedBytes,
                                 Len(fields[w].value) \div 2)
      ELSE <<>>

\* for (const field of hexFields): the first message thrown, or <<>>
RECURSIVE checkFields(_)
checkFields(fields) ==
  IF fields = <<>> THEN <<>>
  ELSE IF checkField(Head(fields)) # <<>> THEN checkField(Head(fields))
  ELSE checkFields(Tail(fields))

\* mutant: the byte lengths of nonces and tags are not checked
validateRecordNoLengths(record) ==
  IF record.alg # SupportedAlg THEN UnsupportedAlgMsg(record.alg)
  ELSE IF record.mk_version # SupportedVersion
       THEN UnsupportedVersionMsg(record.mk_version)
  ELSE checkFields([i \in 1..Len(hexFields(record)) |->
                      [hexFields(record)[i] EXCEPT !.hasExpected = FALSE]])

\* the message validateRecord throws, or <<>> when it returns
validateRecord(record) ==
  IF record.alg # SupportedAlg THEN UnsupportedAlgMsg(record.alg)
  ELSE IF record.mk_version # SupportedVersion
       THEN UnsupportedVersionMsg(record.mk_version)
  ELSE checkFields(hexFields(record))


(***************************************************************************)
(* decryptPayload (index.ts:80-135), one activation.  pc is the statement  *)
(* about to run, trace the stages entered so far; masterKey, dek and plain *)
(* are the locals, value what is returned and error the message thrown.    *)
(***************************************************************************)
IdleFrame ==
  [pc |-> "idle", record |-> NoRecord, masterKey |-> <<>>, dek |-> <<>>,
   plain |-> <<>>, value |-> JNull, error |-> <<>>, trace |-> <<>>]

enterDecrypt(record) ==
  [IdleFrame EXCEPT !.pc = "validateRecord", !.record = record]

TamperMsg ==
  <<"Decryption", "failed:", "data", "may", "be", "tampered", "or", "corrupted">>

\* mutant: the catch block looks for 'bad decrypt' alone
catchMessageBadDecrypt(msg) ==
  IF Includes(msg, <<"bad", "decrypt">>)
  THEN TamperMsg
  ELSE <<"Decryption", "failed:">> \o msg

\* the catch block (index.ts:124-134): the message of the error rethrown
catchMessage(msg) ==
  IF Includes(msg, <<"Unsupported", "state">>) \/ Includes(msg, <<"bad", "decrypt">>)
  THEN TamperMsg
  ELSE <<"Decryption", "failed:">> \o msg

enter(f, stage) == [f EXCEPT !.trace = Append(@, stage)]

\* an error thrown outside the try block reaches the caller as it is
throw(f, msg) == [f EXCEPT !.pc = "thrown", !.error = msg]
\* an error thrown inside the try block goes through the catch block
throwInTry(f, msg) == [f EXCEPT !.pc = "thrown", !.error = catchMessage(msg)]

\* index.ts:82
stepValidate(f) ==
  IF f.pc # "validateRecord" THEN f
  ELSE LET g == enter(f, "validateRecord")
           msg == validateRecord(f.record)
       IN  IF msg # <<>> THEN throw(g, msg) ELSE [g EXCEPT !.pc = "getMasterKey"]

\* index.ts:84
stepGetMasterKey(f, e) ==
  IF f.pc # "getMasterKey" THEN f
  ELSE LET g == enter(f, "getMasterKey")
           mk == getMasterKey(e)
       IN  IF ~mk.ok THEN throw(g, mk.err)
           ELSE [g EXCEPT !.pc = "unwrapDek", !.masterKey = mk.val]

\* mutant: a failed unwrap is reported under a message of its own
stepUnwrapDekLeaky(f) ==
  IF f.pc # "unwrapDek" THEN f
  ELSE LET g == enter(f, "unwrapDek")
           dekWrapNonce == fromHex(f.record.dek_wrap_nonce)
           dekWrapped == fromHex(f.record.dek_wrapped)
           dekWrapTag == fromHex(f.record.dek_wrap_tag)
       IN  IF ~FinalOk(f.masterKey, dekWrapNonce, dekWrapped, dekWrapTag)
           THEN throw(g, <<"Decryption", "failed:", "could", "not", "unwrap", "DEK">>)
           ELSE [g EXCEPT !.pc = "decryptBody",
                          !.dek = GcmCrypt(f.masterKey, dekWrapNonce, dekWrapped)]

\* index.ts:88-103
stepUnwrapDek(f) ==
  IF f.pc # "unwrapDek" THEN f
  ELSE LET g == enter(f, "unwrapDek")
           dekWrapNonce == fromHex(f.record.dek_wrap_nonce)
           dekWrapped == fromHex(f.record.dek_wrapped)
           dekWrapTag == fromHex(f.record.dek_wrap_tag)
       IN  IF ~CipherInitOk(f.masterKey, dekWrapNonce)
           THEN throwInTry(g, IF Len(f.masterKey) # KeyBytes
                              THEN InvalidKeyLengthMsg ELSE InvalidIvMsg)
           ELSE IF ~FinalOk(f.masterKey, dekWrapNonce, dekWrapped, dekWrapTag)
           THEN throwInTry(g, AuthFailedMsg)
           ELSE [g EXCEPT !.pc = "decryptBody",
                          !.dek = GcmCrypt(f.masterKey, dekWrapNonce, dekWrapped)]

\* mutant: the payload is deciphered without setAuthTag and final()
stepDecryptBodyNoFinal(f) ==
  IF f.pc # "decryptBody" THEN f
  ELSE LET g == enter(f, "decryptBody")
           payloadNonce == fromHex(f.record.payload_nonce)
           payloadCt == fromHex(f.record.payload_ct)
       IN  [g EXCEPT !.pc = "parse",
                     !.plain = GcmCrypt(f.dek, payloadNonce, payloadCt)]

\* index.ts:106-121
stepDecryptBody(f) ==
  IF f.pc # "decryptBody" THEN f
  ELSE LET g == enter(f, "decryptBody")
           payloadNonce == fromHex(f.record.payload_nonce)
           payloadCt == fromHex(f.record.payload_ct)
           payloadTag == fromHex(f.record.payload_tag)
       IN  IF ~CipherInitOk(f.dek, payloadNonce)
           THEN throwInTry(g, IF Len(f.dek) # KeyBytes
                              THEN InvalidKeyLengthMsg ELSE InvalidIvMsg)
           ELSE IF ~FinalOk(f.dek, payloadNonce, payloadCt, payloadTag)
           THEN throwInTry(g, AuthFailedMsg)
           ELSE [g EXCEPT !.pc = "parse",
                          !.plain = GcmCrypt(f.dek, payloadNonce, payloadCt)]

\* index.ts:123
stepParse(f) ==
  IF f.pc # "parse" THEN f
  ELSE LET g == enter(f, "parse")
           parsed == JSONparse(utf8Decode(f.plain))
       IN  IF ~parsed.ok THEN throwInTry(g, SyntaxErrorMsg)
           ELSE [g EXCEPT !.pc = "returned", !.value = parsed.v]

\* the whole call, as a caller sees it
decryptPayload(record, e) ==
  stepParse(stepDecryptBody(stepUnwrapDek(
    stepGetMasterKey(stepValidate(enterDecrypt(record)), e))))


(***************************************************************************)
(* What callers pass in: party identifiers, payloads, and records that are *)
(* the encryptor's output as it is, with one bit changed, or malformed.    *)
(***************************************************************************)
PartyIds == {<<"p", "1">>, <<"p", "2">>}

Payloads ==
  { JStr(<<"U+00E9">>),
    JArr(<<JBool(TRUE), JNull>>),
    JObj(<< <<"a">> >>, << JNum(0 - 1) >>) }

FlipBit(buf, i, b) ==
  [buf EXCEPT ![i] = IF Bit(@, b) = 1 THEN @ - 2 ^ b ELSE @ + 2 ^ b]

\* the fields whose bytes the tag checks protect
TamperFields == {"payload_ct", "payload_tag", "dek_wrapped", "dek_wrap_tag"}
HexFieldNames ==
  {"payload_nonce", "payload_ct", "payload_tag",
   "dek_wrap_nonce", "dek_wrapped", "dek_wrap_tag"}

\* record with bit b of byte i of the bytes that field name encodes changed
Flipped(record, name, i, b) ==
  [record EXCEPT ![name] = toHex(FlipBit(fromHex(@), i, b))]

toUpper(str) ==
  [i \in 1..Len(str) |-> IF IsHexChar(str[i]) THEN UpperHex[hexVal(str[i]) + 1] ELSE str[i]]

\* ways a field is wrong: a character that is no hex digit, an odd number of
\* digits, a byte too few, a byte too many; "upper" writes the same bytes in
\* upper case
Faults == {"nonhex", "odd", "short", "long", "upper"}

Malform(str, how) ==
  CASE how = "nonhex" -> <<"g">> \o Drop(str, 1)
    [] how = "odd"    -> SubSeq(str, 1, Len(str) - 1)
    [] how = "short"  -> SubSeq(str, 1, Len(str) - 2)
    [] how = "long"   -> str \o <<"0", "0">>
    [] how = "upper"  -> toUpper(str)

\* what can be wrong with a record: its suite, its key version, or a field
Defects ==
  {<<"alg", "other">>, <<"mk_version", "other">>}
    \cup (HexFieldNames \X Faults)

Malformed(record, defect) ==
  CASE defect[1] = "alg" -> [record EXCEPT !.alg = "AES-128-GCM"]
    [] defect[1] = "mk_version" -> [record EXCEPT !.mk_version = SupportedVersion + 1]
    [] OTHER -> [record EXCEPT ![defect[1]] = Malform(@, defect[2])]

\* defects the validator rejects, for records with two of them
Rejected == {"nonhex", "odd", "short"}
RejectedDefects ==
  {<<"alg", "other">>, <<"mk_version", "other">>}
    \cup (HexFieldNames \X Rejected)

(***************************************************************************)
(* The HTTP layer (apps/api): request bodies and what the routes answer.   *)
(***************************************************************************)
JUndefined == JValue("undefined", FALSE, 0, <<>>, <<>>, <<>>)

\* !x is false
Truthy(x) ==
  CASE x.t = "undefined" -> FALSE
    [] x.t = "null" -> FALSE
    [] x.t = "bool" -> x.b
    [] x.t = "num"  -> x.n # 0
    [] x.t = "str"  -> x.s # <<>>
    [] OTHER -> TRUE

\* request.body of POST /tx/encrypt
BodyPartyIds == {JUndefined, JStr(<<>>), JNum(5), JStr(<<"p", "1">>)}
BodyPayloads == {JUndefined, JNull, JObj(<< <<"a">> >>, << JNum(0 - 1) >>)}

NoReply ==
  [route |-> "none", status |-> 0, error |-> "", record |-> NoRecord,
   payload |-> JUndefined, logged |-> <<>>]

\* reply.code(status).send({ error })
ErrorReply(route, status, error, logged) ==
  [NoReply EXCEPT !.route = route, !.status = status, !.error = error,
                  !.logged = logged]

\* POST /tx/encrypt (tx.ts:18-42); encrypted is what encryptPayload does
\* with the body, were it called
encryptReply(partyId, payload, encrypted) ==
  IF ~Truthy(partyId) \/ partyId.t # "str"
  THEN ErrorReply("encrypt", 400, "partyId must be a string", <<>>)
  ELSE IF payload.t = "undefined" \/ payload.t = "null"
  THEN ErrorReply("encrypt", 400, "payload is required", <<>>)
  ELSE IF encrypted.ok
  THEN [NoReply EXCEPT !.route = "encrypt", !.status = 201, !.record = encrypted.val]
  ELSE ErrorReply("encrypt", 500, "Encryption failed", encrypted.err)

\* mutant: the record is stored under a key that is not its id
encryptStoreFixedKey(store, r) ==
  IF r.status = 201
  THEN [k \in DOMAIN store \cup {1} |-> IF k = 1 THEN r.record ELSE store[k]]
  ELSE store

\* the store after POST /tx/encrypt: storage.set(record.id, record) at
\* tx.ts:34, reached only when the reply is 201
encryptStore(store, r) ==
  IF r.status = 201
  THEN [k \in DOMAIN store \cup {r.record.id} |->
          IF k = r.record.id THEN r.record ELSE store[k]]
  ELSE store

\* GET /tx/:id (tx.ts:45-58)
getReply(store, id) ==
  IF id \notin DOMAIN store
  THEN ErrorReply("get", 404, "Record not found", <<>>)
  ELSE [NoReply EXCEPT !.route = "get", !.status = 200, !.record = store[id]]

\* POST /tx/:id/decrypt, tx.ts:72-78: f is the finished activation of
\* decryptPayload
decryptReply(f) ==
  IF f.pc = "returned"
  THEN [NoReply EXCEPT !.route = "decrypt", !.status = 200, !.payload = f.value]
  ELSE ErrorReply("decrypt", 400, "Decryption failed", f.error)

\* POST /tx/:id/decrypt (tx.ts:61-80)
decryptRoute(store, id, e) ==
  IF id \notin DOMAIN store
  THEN ErrorReply("decrypt", 404, "Record not found", <<>>)
  ELSE decryptReply(decryptPayload(store[id], e))

\* the entry points: the standalone server (unnamed/part_002), the
\* serverless handler with the startup check (unnamed/part_001) and those
\* without it (api/index.ts, and unnamed/part_000 which goes through inject)
Entries == {"server", "checkedHandler", "handler", "injectHandler"}

\* if (!process.env.MASTER_KEY) process.exit(1)
startupCheck(entry, e) ==
  IF entry \in {"server", "checkedHandler"} /\ (~e.defined \/ e.value = <<>>)
  THEN "exited"
  ELSE "serving"

(***************************************************************************)
(* State.                                                                  *)
(***************************************************************************)
VARIABLES
  env,      \* process.env.MASTER_KEY
  encCall,  \* the last call of encryptPayload: its arguments and its result
  frame,    \* the running or finished activation of decryptPayload
  produced, \* the records encryptPayload has returned, in the order of the calls
  server,   \* the API process: its entry point and whether it serves
  storage,  \* the Map of tx.ts:5, a function from ids to records
  reply     \* the last HTTP reply, with what the route logged

vars == <<env, encCall, frame, produced, server, storage, reply>>
libVars == <<encCall, frame, produced>>
httpVars == <<server, storage, reply>>

NoCall ==
  [called |-> FALSE, partyId |-> <<>>, payload |-> JNull, env |-> EnvUndefined,
   result |-> [ok |-> FALSE, val |-> NoRecord, err |-> <<>>]]

NoServer == [entry |-> "none", status |-> "off", app |-> FALSE]
EmptyStore == [k \in {} |-> NoRecord]

Idle == frame.pc = "idle"

HasRecord == encCall.called /\ encCall.result.ok

(***************************************************************************)
(* The library, called directly.                                           *)
(***************************************************************************)
Init ==
  /\ env \in Envs
  /\ encCall = NoCall
  /\ frame = IdleFrame
  /\ produced = <<>>
  /\ server = NoServer
  /\ storage = EmptyStore
  /\ reply = NoReply

\* the environment of the process is set to e
SetEnv(e) ==
  /\ Idle
  /\ e # env
  /\ env' = e
  /\ UNCHANGED <<libVars, httpVars>>

\* a call of encryptPayload; the random source is in state seed
Encrypt(partyId, payload, seed, now) ==
  /\ Idle
  /\ encCall' = [called |-> TRUE, partyId |-> partyId, payload |-> payload, env |-> env,
                 result |-> encryptPayload(partyId, payload, env, seed, 2 * seed,
                                           2 * seed + 1, seed, now)]
  /\ UNCHANGED <<env, frame, produced, httpVars>>

\* decryptPayload is called (index.ts:80-82) with the record encryptPayload
\* returned
DecryptCall ==
  /\ Idle /\ HasRecord
  /\ frame' = stepValidate(enterDecrypt(encCall.result.val))
  /\ UNCHANGED <<env, encCall, produced, httpVars>>

\* ... with one bit of it changed, the master key being the one it was made under
DecryptTampered ==
  /\ Idle /\ HasRecord /\ env = encCall.env
  /\ \E name \in TamperFields :
       \E i \in 1..(Len(encCall.result.val[name]) \div 2), b \in 0..7 :
         frame' = stepValidate(enterDecrypt(Flipped(encCall.result.val, name, i, b)))
  /\ UNCHANGED <<env, encCall, produced, httpVars>>

\* ... with one thing wrong in it, or two that the validator rejects
DecryptMalformed ==
  /\ Idle /\ HasRecord
  /\ \/ \E d1 \in Defects :
          frame' = stepValidate(enterDecrypt(Malformed(encCall.result.val, d1)))
     \/ \E d1 \in RejectedDefects, d2 \in RejectedDefects :
          /\ d2[1] # d1[1]
          /\ frame' = stepValidate(enterDecrypt(
                        Malformed(Malformed(encCall.result.val, d1), d2)))
  /\ UNCHANGED <<env, encCall, produced, httpVars>>

ResolveKey ==
  /\ frame.pc = "getMasterKey"
  /\ frame' = stepGetMasterKey(frame, env)
  /\ UNCHANGED <<env, encCall, produced, httpVars>>

UnwrapDek ==
  /\ frame.pc = "unwrapDek"
  /\ frame' = stepUnwrapDek(frame)
  /\ UNCHANGED <<env, encCall, produced, httpVars>>

DecryptBody ==
  /\ frame.pc = "decryptBody"
  /\ frame' = stepDecryptBody(frame)
  /\ UNCHANGED <<env, encCall, produced, httpVars>>

Parse ==
  /\ frame.pc = "parse"
  /\ frame' = stepParse(frame)
  /\ UNCHANGED <<env, encCall, produced, httpVars>>

\* the activation is over: its caller has the value or the error
Finish ==
  /\ frame.pc \in {"returned", "thrown"}
  /\ frame' = IdleFrame
  /\ UNCHANGED <<env, encCall, produced, httpVars>>

Next ==
  \/ \E e \in Envs : SetEnv(e)
  \/ \E partyId \in PartyIds, payload \in Payloads, seed \in 1..NumSeeds, now \in Instants :
       Encrypt(partyId, payload, seed, now)
  \/ DecryptCall
  \/ DecryptTampered
  \/ DecryptMalformed
  \/ ResolveKey
  \/ UnwrapDek
  \/ DecryptBody
  \/ Parse
  \/ Finish

Spec == Init /\ [][Next]_vars

(***************************************************************************)
(* A sequence of encryptPayload calls. The random source is a stream: a    *)
(* call reads it at a position no earlier call has read (crypto.randomBytes *)
(* and crypto.randomUUID are taken not to repeat a value).                 *)
(***************************************************************************)
\* the positions of the random source that the calls so far have read
SeedsRead == {produced[i].seed : i \in 1..Len(produced)}

\* a call of encryptPayload that reads the random source at position seed;
\* a call that throws (index.ts:21) draws nothing and returns no record
EncryptNext(partyId, payload, seed, now) ==
  /\ seed \notin SeedsRead
  /\ LET result == encryptPayload(partyId, payload, env, seed, 2 * seed,
                                  2 * seed + 1, seed, now)
     IN  /\ encCall' = [called |-> TRUE, partyId |-> partyId, payload |-> payload,
                        env |-> env, result |-> result]
         /\ produced' = IF result.ok
                        THEN Append(produced, [seed |-> seed, record |-> result.val])
                        ELSE produced
  /\ UNCHANGED <<env, frame, httpVars>>

\* the arguments of the calls: one party, two payloads, so that calls repeat
\* the arguments of earlier calls
CallPartyIds == {<<"p", "1">>}
CallPayloads == {payload \in Payloads : payload.t # "obj"}

NextCalls ==
  \/ \E e \in Envs : SetEnv(e)
  \/ \E partyId \in CallPartyIds, payload \in CallPayloads, seed \in 1..NumSeeds,
        now \in Instants : EncryptNext(partyId, payload, seed, now)

SpecCalls == Init /\ [][NextCalls]_vars

(***************************************************************************)
(* The API process.                                                        *)
(***************************************************************************)
InitHttp ==
  /\ env \in Envs
  /\ encCall = NoCall
  /\ frame = IdleFrame
  /\ produced = <<>>
  /\ server \in {[entry |-> entry, status |-> "starting", app |-> FALSE] : entry \in Entries}
  /\ storage = EmptyStore
  /\ reply = NoReply

\* the module-level code of the entry point runs (part_002:6-33,
\* part_001:4-8); the standalone server builds its app at once
Start ==
  /\ server.status = "starting"
  /\ server' = [server EXCEPT !.status = startupCheck(server.entry, env),
                              !.app = server.entry = "server"
                                        /\ startupCheck(server.entry, env) = "serving"]
  /\ UNCHANGED <<env, libVars, storage, reply>>

\* process.env.MASTER_KEY is reassigned while the process serves: it is a
\* mutable global that getMasterKey reads again on every call (index.ts:200)
EnvChange(e) ==
  /\ server.status = "serving"
  /\ e # env
  /\ env' = e
  /\ UNCHANGED <<libVars, httpVars>>

\* a handler builds the app on its first request (api/index.ts:6-9)
Served == [server EXCEPT !.app = TRUE]

\* a request whose call of encryptPayload draws (reply 201) reads the random
\* source where no earlier call has: the ids drawn so far are the keys of the
\* store, crypto.randomUUID being taken not to repeat a value
PostEncrypt(partyId, payload, seed, now) ==
  /\ server.status = "serving"
  /\ LET encrypted == encryptPayload(partyId.s, payload, env, seed, 2 * seed,
                                     2 * seed + 1, seed, now)
         r == encryptReply(partyId, payload, encrypted)
     IN  /\ r.status = 201 => seed \notin DOMAIN storage
         /\ reply' = r
         /\ storage' = encryptStore(storage, r)
  /\ server' = Served
  /\ UNCHANGED <<env, libVars>>

GetTx(id) ==
  /\ server.status = "serving"
  /\ reply' = getReply(storage, id)
  /\ server' = Served
  /\ UNCHANGED <<env, libVars, storage>>

PostDecrypt(id) ==
  /\ server.status = "serving"
  /\ reply' = decryptRoute(storage, id, env)
  /\ server' = Served
  /\ UNCHANGED <<env, libVars, storage>>

NextHttp ==
  \/ Start
  \/ \E e \in Envs : EnvChange(e)
  \/ \E partyId \in BodyPartyIds, payload \in BodyPayloads, seed \in 1..NumSeeds,
        now \in Instants : PostEncrypt(partyId, payload, seed, now)
  \/ \E id \in 1..NumSeeds : GetTx(id)
  \/ \E id \in 1..NumSeeds : PostDecrypt(id)

SpecHttp == InitHttp /\ [][NextHttp]_vars

(***************************************************************************)
(* Properties.                                                             *)
(***************************************************************************)
Last(seq) == seq[Len(seq)]

\* a 64-character hex string: the encoding of exactly 32 bytes
WellFormedKey(e) ==
  /\ e.defined
  /\ Len(e.value) = 2 * KeyBytes
  /\ \A i \in 1..Len(e.value) : e.value[i] \in HexChars

\* the record decryptPayload was called with is the one encryptPayload returned
CalledWithOutput == HasRecord /\ ~Idle /\ frame.record = encCall.result.val

\* x and y are equally long and differ in exactly one bit
OneBitApart(x, y) ==
  /\ Len(x) = Len(y)
  /\ \E i \in 1..Len(x) :
       /\ \A j \in 1..Len(x) : j # i => x[j] = y[j]
       /\ \E b \in 0..7 : Bit(x[i], b) # Bit(y[i], b)
                            /\ \A c \in 0..7 : c # b => Bit(x[i], c) = Bit(y[i], c)

\* r is record with one bit of the bytes of field name changed, and nothing else
TamperedIn(r, record, name) ==
  /\ r # record
  /\ [r EXCEPT ![name] = record[name]] = record
  /\ OneBitApart(fromHex(r[name]), fromHex(record[name]))

StagesOfSuccess ==
  <<"validateRecord", "getMasterKey", "unwrapDek", "decryptBody", "parse">>

\* C1: round trip. When decryptPayload is called with the record that
\* encryptPayload returned for (partyId, payload), under the same well-formed
\* master key, the call does not throw, and the value it returns is payload.
C1_RoundTrip ==
  (CalledWithOutput /\ env = encCall.env /\ WellFormedKey(env))
    => /\ frame.pc # "thrown"
       /\ frame.pc = "returned" => frame.value = encCall.payload

C1_Witness ==
  /\ CalledWithOutput /\ env = encCall.env /\ WellFormedKey(env)
  /\ frame.pc = "returned"
  /\ frame.trace = StagesOfSuccess
  /\ frame.value = JObj(<< <<"a">> >>, << JNum(0 - 1) >>)
  /\ encCall.partyId = <<"p", "2">>

\* C2: tamper detection. When decryptPayload is called with a record made by
\* encryptPayload in which one bit of the bytes of payload_ct, payload_tag,
\* dek_wrapped or dek_wrap_tag was changed, the master key being unchanged,
\* it never returns a value, and the error it throws is the tamper error.
C2_TamperDetected ==
  (HasRecord /\ ~Idle /\ env = encCall.env
     /\ \E name \in TamperFields : TamperedIn(frame.record, encCall.result.val, name))
    => /\ frame.pc # "returned"
       /\ frame.value = JNull
       /\ frame.pc = "thrown" => frame.error = TamperMsg

C2_Witness ==
  /\ HasRecord /\ env = encCall.env
  /\ TamperedIn(frame.record, encCall.result.val, "payload_ct")
  /\ frame.pc = "thrown"
  /\ frame.error = TamperMsg
  /\ Last(frame.trace) = "decryptBody"

\* C3: wrong key. When a record made under one well-formed master key is
\* decrypted while the master key is a different well-formed key,
\* decryptPayload returns no value and throws the tamper error.
C3_WrongKeyRejected ==
  (CalledWithOutput /\ WellFormedKey(encCall.env) /\ WellFormedKey(env)
     /\ fromHex(env.value) # fromHex(encCall.env.value))
    => /\ frame.pc # "returned"
       /\ frame.value = JNull
       /\ frame.pc \notin {"decryptBody", "parse"}
       /\ frame.pc = "thrown" => frame.error = TamperMsg

C3_Witness ==
  /\ CalledWithOutput
  /\ encCall.env = EnvK1 /\ env = EnvK2
  /\ frame.pc = "thrown"
  /\ frame.error = TamperMsg
  /\ Last(frame.trace) = "unwrapDek"

\* what the validator requires of a record, stated on its own
RecordIsValid(r) ==
  /\ r.alg = "AES-256-GCM"
  /\ r.mk_version = 1
  /\ \A name \in HexFieldNames :
       /\ \A i \in 1..Len(r[name]) : r[name][i] \in HexChars
       /\ Len(r[name]) % 2 = 0
  /\ Len(r.payload_nonce) = 24 /\ Len(r.dek_wrap_nonce) = 24
  /\ Len(r.payload_tag) = 32 /\ Len(r.dek_wrap_tag) = 32

ValidationMsgs(r) ==
  {UnsupportedAlgMsg(r.alg), UnsupportedVersionMsg(r.mk_version)}
    \cup {InvalidHexMsg(name) : name \in HexFieldNames}
    \cup {InvalidHexLengthMsg(name) : name \in HexFieldNames}
    \cup {InvalidLengthMsg(name, n, Len(r[name]) \div 2) :
            name \in HexFieldNames, n \in {NonceBytes, TagBytes}}

\* C4: validation comes first. A call of decryptPayload with a record that
\* fails validation has thrown a validation error as soon as validateRecord
\* has run: the master key has not been resolved and no decipher has been
\* created, whatever process.env.MASTER_KEY holds.
C4_ValidationFirst ==
  (~Idle /\ ~RecordIsValid(frame.record))
    => /\ frame.pc = "thrown"
       /\ frame.trace = <<"validateRecord">>
       /\ frame.error \in ValidationMsgs(frame.record)
       /\ frame.masterKey = <<>> /\ frame.dek = <<>> /\ frame.plain = <<>>
       /\ frame.value = JNull

\* the record has a 13-byte payload_nonce and the master key is missing: the
\* error is the validator's, not getMasterKey's
C4_Witness ==
  /\ ~Idle
  /\ Len(frame.record.payload_nonce) = 26
  /\ ~getMasterKey(env).ok
  /\ frame.pc = "thrown"
  /\ frame.trace = <<"validateRecord">>
  /\ frame.error = InvalidLengthMsg("payload_nonce", 12, 13)


FieldOrder ==
  <<"payload_nonce", "payload_ct", "payload_tag",
    "dek_wrap_nonce", "dek_wrapped", "dek_wrap_tag">>

ExpectedBytes(name) ==
  CASE name \in {"payload_nonce", "dek_wrap_nonce"} -> 12
    [] name \in {"payload_tag", "dek_wrap_tag"} -> 16
    [] OTHER -> 0

FailsHex(r, name) == \E i \in 1..Len(r[name]) : r[name][i] \notin HexChars
FailsEven(r, name) == Len(r[name]) % 2 = 1
FailsLength(r, name) ==
  ExpectedBytes(name) # 0 /\ Len(r[name]) \div 2 # ExpectedBytes(name)

LengthMsgOf(r, name) ==
  InvalidLengthMsg(name, ExpectedBytes(name), Len(r[name]) \div 2)

\* the error of the first failing check when every check of a step is made
\* on all six fields before any check of the next step; <<>> if none fails
StepMajorError(r) ==
  LET h == LeastIn({i \in 1..6 : FailsHex(r, FieldOrder[i])}, 6)
      e == LeastIn({i \in 1..6 : FailsEven(r, FieldOrder[i])}, 6)
      l == LeastIn({i \in 1..6 : FailsLength(r, FieldOrder[i])}, 6)
  IN  IF r.alg # "AES-256-GCM" THEN UnsupportedAlgMsg(r.alg)
      ELSE IF r.mk_version # 1 THEN UnsupportedVersionMsg(r.mk_version)
      ELSE IF h <= 6 THEN InvalidHexMsg(FieldOrder[h])
      ELSE IF e <= 6 THEN InvalidHexLengthMsg(FieldOrder[e])
      ELSE IF l <= 6 THEN LengthMsgOf(r, FieldOrder[l])
      ELSE <<>>

\* the error of the first failing check when the three checks of a field are
\* made before any check of the next field; <<>> if none fails
FieldMajorError(r) ==
  LET i == LeastIn({j \in 1..6 : \/ FailsHex(r, FieldOrder[j])
                                  \/ FailsEven(r, FieldOrder[j])
                                  \/ FailsLength(r, FieldOrder[j])}, 6)
  IN  IF r.alg # "AES-256-GCM" THEN UnsupportedAlgMsg(r.alg)
      ELSE IF r.mk_version # 1 THEN UnsupportedVersionMsg(r.mk_version)
      ELSE IF i > 6 THEN <<>>
      ELSE IF FailsHex(r, FieldOrder[i]) THEN InvalidHexMsg(FieldOrder[i])
      ELSE IF FailsEven(r, FieldOrder[i]) THEN InvalidHexLengthMsg(FieldOrder[i])
      ELSE LengthMsgOf(r, FieldOrder[i])

\* validateRecord threw
ThrownByValidator == frame.pc = "thrown" /\ frame.trace = <<"validateRecord">>

\* C5, as claimed: the validator reports the first failing check in the order
\* alg, mk_version, hex format of all six fields, even length of all six
\* fields, byte length of the four nonce and tag fields.
C5_StepOrder ==
  ~Idle => IF StepMajorError(frame.record) # <<>>
           THEN ThrownByValidator /\ frame.error = StepMajorError(frame.record)
           ELSE ~ThrownByValidator

\* C5, amended: the validator reports the first failing check in the order
\* alg, mk_version, then field by field (payload_nonce, payload_ct,
\* payload_tag, dek_wrap_nonce, dek_wrapped, dek_wrap_tag), the hex format,
\* even length and byte length of one field before anything of the next.
C5_FieldOrder ==
  ~Idle => IF FieldMajorError(frame.record) # <<>>
           THEN ThrownByValidator /\ frame.error = FieldMajorError(frame.record)
           ELSE ~ThrownByValidator

\* payload_nonce has 11 bytes and payload_ct a character that is no hex digit:
\* the length of payload_nonce is reported
C5_Witness ==
  /\ ThrownByValidator
  /\ Len(frame.record.payload_nonce) = 22
  /\ FailsHex(frame.record, "payload_ct")
  /\ frame.error = InvalidLengthMsg("payload_nonce", 12, 11)

IsConfigError(msg) == HasPrefix(msg, <<"MASTER_KEY">>)

\* C6: getMasterKey returns a key only for a 64-character hex secret; an
\* absent secret fails as missing, one with a character that is no hex digit
\* as invalid format, a hex secret of any other length as invalid length;
\* and a call of decryptPayload is past getMasterKey only under such a secret.
C6_KeyResolution ==
  /\ encCall.called =>
       LET e == encCall.env
           r == encCall.result
           absent == ~e.defined \/ e.value = <<>>
           allHex == \A i \in 1..Len(e.value) : e.value[i] \in HexChars
       IN  /\ r.ok <=> WellFormedKey(e)
           /\ absent => r.err = MissingKeyMsg
           /\ (~absent /\ ~allHex) => r.err = KeyFormatMsg
           /\ (~absent /\ allHex /\ Len(e.value) # 64)
                => HasPrefix(r.err, <<"MASTER_KEY", "must", "be", "exactly", "32", "bytes">>)
  /\ frame.masterKey # <<>> => WellFormedKey(env)

\* C9: decryptPayload returns a value only after validateRecord, the tag
\* check of the DEK unwrap and the tag check of the payload have succeeded, in
\* that order; the stages run in the one order, and until the call returns,
\* and when it throws, its caller has no value.
C9_VerifiedBeforeReturn ==
  LET r == frame.record
      wrapOk == GcmTag(frame.masterKey, fromHex(r.dek_wrap_nonce),
                       fromHex(r.dek_wrapped)) = fromHex(r.dek_wrap_tag)
      bodyOk == GcmTag(frame.dek, fromHex(r.payload_nonce),
                       fromHex(r.payload_ct)) = fromHex(r.payload_tag)
  IN  /\ SubSeq(StagesOfSuccess, 1, Len(frame.trace)) = frame.trace
      /\ frame.pc = "returned" =>
           /\ frame.trace = StagesOfSuccess
           /\ RecordIsValid(r) /\ wrapOk /\ bodyOk
      /\ frame.dek # <<>> => RecordIsValid(r) /\ wrapOk
      /\ frame.plain # <<>> => RecordIsValid(r) /\ wrapOk /\ bodyOk
      /\ frame.pc # "returned" => frame.value = JNull

\* the DEK was unwrapped, the tag of the payload did not verify: the call
\* threw and handed nothing to its caller
C9_Witness ==
  /\ frame.pc = "thrown"
  /\ frame.trace = <<"validateRecord", "getMasterKey", "unwrapDek", "decryptBody">>
  /\ frame.dek # <<>> /\ frame.plain = <<>> /\ frame.value = JNull
  /\ HasRecord /\ TamperedIn(frame.record, encCall.result.val, "payload_tag")

\* the tag of r does not verify at the stage frame is in
UnwrapAuthFails(f) ==
  /\ f.pc = "thrown" /\ Last(f.trace) = "unwrapDek"
  /\ GcmTag(f.masterKey, fromHex(f.record.dek_wrap_nonce), fromHex(f.record.dek_wrapped))
       # fromHex(f.record.dek_wrap_tag)
BodyAuthFails(f) ==
  /\ f.pc = "thrown" /\ Last(f.trace) = "decryptBody"
  /\ GcmTag(f.dek, fromHex(f.record.payload_nonce), fromHex(f.record.payload_ct))
       # fromHex(f.record.payload_tag)

\* the record of the last encryptPayload call with its payload tag changed: a
\* record that passes validation and fails authentication at the payload stage
BodyStageFailure ==
  decryptPayload(Flipped(encCall.result.val, "payload_tag", 1, 0), encCall.env)

\* C10: no stage leak. A call that fails authentication at the DEK-unwrap
\* stage throws the very error that a call failing at the payload stage
\* throws, and POST /tx/:id/decrypt answers the two alike; at either stage
\* the error is the one tamper error.
C10_NoStageLeak ==
  /\ (UnwrapAuthFails(frame) /\ HasRecord) =>
       /\ BodyAuthFails(BodyStageFailure)
       /\ frame.error = BodyStageFailure.error
       /\ decryptReply(frame) = decryptReply(BodyStageFailure)
  /\ (UnwrapAuthFails(frame) \/ BodyAuthFails(frame)) =>
       /\ frame.error = TamperMsg
       /\ decryptReply(frame) = ErrorReply("decrypt", 400, "Decryption failed", TamperMsg)

C10_Witness ==
  /\ HasRecord /\ UnwrapAuthFails(frame)
  /\ TamperedIn(frame.record, encCall.result.val, "dek_wrapped")
  /\ BodyAuthFails(BodyStageFailure)
  /\ frame.error = BodyStageFailure.error

\* a failure the caller's input causes: the body of POST /tx/encrypt is
\* rejected, or the validator rejects the record
IsInputFailure(r) ==
  \/ r.error \in {"partyId must be a string", "payload is required"}
  \/ (r.logged # <<>> /\ HasPrefix(r.logged, <<"Unsupported">>))
  \/ (r.logged # <<>> /\ HasPrefix(r.logged, <<"Invalid">>))

\* C7: POST /tx/encrypt and POST /tx/:id/decrypt answer a failure caused by
\* the caller's input with a 4xx status and a failure caused by the
\* configuration (the master key missing, malformed or of the wrong length
\* at call time) with a 5xx status.
C7_StatusMapping ==
  reply.route \in {"encrypt", "decrypt"} =>
    /\ IsInputFailure(reply) => reply.status \in 400..499
    /\ IsConfigError(reply.logged) => reply.status \in 500..599

\* C8: the service never serves while the master key is absent or malformed,
\* and no request handler observes an error of master key resolution.
C8_StartupGate ==
  /\ server.status = "serving" => WellFormedKey(env)
  /\ ~IsConfigError(reply.logged)


\* C11: freshness. After any sequence of encryptPayload calls, repeated
\* calls with the same partyId, payload and master key included, any two of
\* the records returned differ in id, in payload_nonce and in dek_wrap_nonce.
C11_Freshness ==
  \A i \in 1..Len(produced), j \in 1..Len(produced) :
    i # j =>
      /\ produced[i].record.id # produced[j].record.id
      /\ produced[i].record.payload_nonce # produced[j].record.payload_nonce
      /\ produced[i].record.dek_wrap_nonce # produced[j].record.dek_wrap_nonce

\* two calls with the same partyId and payload under the same master key
C11_Witness ==
  /\ Len(produced) = 2
  /\ produced[1].record.partyId = produced[2].record.partyId
  /\ decryptPayload(produced[1].record, env).pc = "returned"
  /\ decryptPayload(produced[2].record, env).pc = "returned"
  /\ decryptPayload(produced[1].record, env).value
       = decryptPayload(produced[2].record, env).value
  /\ produced[1].record.payload_ct # produced[2].record.payload_ct


\* C12: every record that encryptPayload returns passes validateRecord: alg
\* is 'AES-256-GCM', mk_version is 1, the six binary fields are hex strings of
\* even length, the nonces have 12 bytes, the tags 16, dek_wrapped 32, and
\* payload_ct has as many bytes as the UTF-8 JSON serialization of the payload.
C12_OutputIsValid ==
  HasRecord =>
    LET r == encCall.result.val
    IN  /\ validateRecord(r) = <<>>
        /\ r.alg = "AES-256-GCM" /\ r.mk_version = 1
        /\ \A name \in HexFieldNames :
             /\ \A i \in 1..Len(r[name]) : r[name][i] \in HexChars
             /\ Len(r[name]) % 2 = 0
        /\ Len(r.payload_nonce) = 2 * 12 /\ Len(r.dek_wrap_nonce) = 2 * 12
        /\ Len(r.payload_tag) = 2 * 16 /\ Len(r.dek_wrap_tag) = 2 * 16
        /\ Len(r.dek_wrapped) = 2 * 32
        /\ Len(r.payload_ct) = 2 * Len(utf8Encode(JSONstringify(encCall.payload)))

\* a record for a payload whose serialization has three characters and four
\* bytes, with a byte below 16 in its ciphertext or tags
C12_Witness ==
  /\ HasRecord
  /\ Len(JSONstringify(encCall.payload)) = 3
  /\ Len(encCall.result.val.payload_ct) = 8
  /\ \E name \in HexFieldNames :
       \E i \in 1..Len(fromHex(encCall.result.val[name])) :
         fromHex(encCall.result.val[name])[i] < 16


\* the step of the store that a request with reply r may make; a step that
\* is no request leaves the last reply in place
StoreStep(r) ==
  /\ \A k \in DOMAIN storage : k \in DOMAIN storage' /\ storage'[k] = storage[k]
  /\ storage' # storage =>
       /\ r.route = "encrypt" /\ r.status = 201
       /\ r.record.id \notin DOMAIN storage
       /\ DOMAIN storage' = DOMAIN storage \cup {r.record.id}
       /\ storage'[r.record.id] = r.record
  /\ (r.route = "encrypt" /\ r.status = 201 /\ r # reply) => storage' # storage
  /\ (r.route \in {"get", "decrypt"} \/ r.status \in {400, 500}) => storage' = storage

\* C13: the store is append-only and keyed by id. It changes only on a
\* POST /tx/encrypt answered 201, which adds the record of the reply under
\* its id; a stored record is never changed or removed; every stored record
\* has its key as id; a rejected POST /tx/encrypt, GET /tx/:id and
\* POST /tx/:id/decrypt leave it as it is; GET and decrypt of an id that was
\* never stored answer 404, and of a stored id do not.
C13_AppendOnlyStore ==
  /\ [][StoreStep(reply')]_vars
  /\ [](\A k \in DOMAIN storage : storage[k].id = k)
  /\ [](\A id \in 1..NumSeeds :
          /\ (getReply(storage, id).status = 404) <=> (id \notin DOMAIN storage)
          /\ (decryptRoute(storage, id, env).status = 404) <=> (id \notin DOMAIN storage))

\* two records are stored and the last request, a POST /tx/encrypt, was
\* rejected
C13_Witness ==
  /\ DOMAIN storage = {1, 2}
  /\ reply.route = "encrypt" /\ reply.status \in {400, 500}


====
